---- MODULE Spec2Model ----
(***************************************************************************)
(* Model of the two classes of sentinel-agent's coordination core:         *)
(*   MultiAgentCoordinator (registerAgent, distributeTask,                 *)
(*   allocateSubtasks, aggregateResults, synchronizeAgents) and            *)
(*   ReplaySystem (recordSession, extractPatterns).                        *)
(* JavaScript runs each synchronous segment of a function to completion,   *)
(* so one action is one segment: from a call (or the resumption of an      *)
(* await) up to the next await or the return.                              *)
(* Numbers the code keeps as floats in [0,1] are kept in hundredths        *)
(* (1.0 is 100).  A JavaScript Map is a sequence of [k, v] entries in      *)
(* insertion order.  Timestamps and the logger are left out: nothing       *)
(* reads them back.                                                        *)
(***************************************************************************)
EXTENDS Integers, Sequences, FiniteSets, TLC

VARIABLES
    agents,     \* MultiAgentCoordinator.agents : Map agentId -> record
    tasks,      \* MultiAgentCoordinator.tasks  : Map taskKey -> history entry
    calls,      \* the frames of the distributeTask calls made so far
    syncs,      \* the frames of the synchronizeAgents calls made so far
    replays,    \* ReplaySystem.replays : array of sessions
    patterns,   \* ReplaySystem.patterns : Map signature -> {count, successTotal}
    recorded,   \* every session recordSession has built, in call order
    disk,       \* the files saveReplays has written, in the order written
    saving,     \* the saveReplays calls whose writeFile is pending
    loading,    \* the loadReplays calls whose readFile is pending
    ret,        \* the last ReplaySystem call that returned: its name, its
                \* arguments by parameter name, the value returned by type;
                \* for a load, the number of sessions recorded before the call
    nOps,       \* number of ReplaySystem calls made
    streak      \* the learn calls made with one threshold since the last
                \* record or load: how many, the threshold, the store before

vars == <<agents, tasks, calls, syncs, replays, patterns, recorded,
          disk, saving, loading, ret, nOps, streak>>
coordVars == <<agents, tasks, calls, syncs>>
replayVars == <<replays, patterns, recorded, disk, saving, loading, ret, nOps, streak>>

NoStreak == [n |-> 0, threshold |-> 0, replays |-> <<>>, patterns |-> <<>>]

----------------------------------------------------------------------------
(* Bounds of the model *)

MaxCalls == 1
MaxSubtasks == 3
MaxSyncCalls == 1
MaxSyncIds == 2
MaxRecords == 3
MaxReplays == 2
MaxOps == 5
MaxTopK == 2
MaxOverlap == 2
MaxCoordCalls == 2

AgentIds == {"A", "B"}
TaskIds == {"job"}
\* crypto.randomBytes(8).toString('hex'): any key, a used one included
TaskKeys == {"k1", "k2"}

----------------------------------------------------------------------------
(* JavaScript Map: get / has / set keep insertion order; set on an existing *)
(* key replaces the value in place.                                         *)

MapHas(m, key) == \E i \in 1..Len(m) : m[i].k = key

MapGet(m, key) == m[CHOOSE i \in 1..Len(m) : m[i].k = key].v

MapSet(m, key, val) ==
    IF MapHas(m, key)
    THEN [i \in 1..Len(m) |-> IF m[i].k = key THEN [k |-> key, v |-> val] ELSE m[i]]
    ELSE Append(m, [k |-> key, v |-> val])

\* a / b as JavaScript computes it for integers a >= 0, b >= 0: 0/0 is NaN.
JsDiv(a, b) ==
    IF b = 0 THEN [nan |-> TRUE, num |-> 0, den |-> 0]
    ELSE [nan |-> FALSE, num |-> a, den |-> b]

----------------------------------------------------------------------------
(* MultiAgentCoordinator *)

AgentRecord(hasSync) ==
    [instance |-> [sync |-> hasSync], status |-> "ready",
     tasksCompleted |-> 0, successRate |-> 100]

\* Array.prototype.sort with (a, b) => b.successRate - a.successRate: stable,
\* descending.  e goes behind every entry whose rate is not smaller.
InsertByRate(sorted, e) ==
    LET n == Cardinality({i \in 1..Len(sorted) :
                            sorted[i].v.successRate >= e.v.successRate})
    IN  SubSeq(sorted, 1, n) \o <<e>> \o SubSeq(sorted, n + 1, Len(sorted))

RECURSIVE SortByRate(_)
SortByRate(s) ==
    IF s = <<>> THEN <<>>
    ELSE InsertByRate(SortByRate(SubSeq(s, 1, Len(s) - 1)), s[Len(s)])

IsReady(e) == e.v.status = "ready"

ReadyAgents(ags) == SortByRate(SelectSeq(ags, IsReady))

RECURSIVE AllocLoop(_, _, _, _)
AllocLoop(ready, subtasks, i, allocations) ==
    IF i > Len(subtasks) \/ Len(ready) = 0 THEN allocations
    ELSE AllocLoop(ready, subtasks, i + 1,
                   MapSet(allocations, ready[((i - 1) % Len(ready)) + 1].k, subtasks[i]))

allocateSubtasks(ags, subtasks) == AllocLoop(ReadyAgents(ags), subtasks, 1, <<>>)

\* What execute(subtask) hands back when it does not throw: a promise that
\* resolves with a result, rejects with an error, or never settles.
Fates == {"resolve", "reject", "hang"}

ResultOf(subtask) == <<"done", subtask>>
ErrorOf(subtask) == <<"error", subtask>>

\* The loop as it would be if it awaited each execution before the next call:
\* only the first execute is called before the wait.
DispatchLoopFirstOnly(assignments, ags, k, fates) ==
    LET d == SelectSeq(assignments, LAMBDA a : MapHas(ags, a.k))
        all == IF k = 0 THEN Len(d) ELSE k - 1
        cnt == IF all > 1 THEN 1 ELSE all
    IN  [i \in 1..cnt |->
            [agentId |-> d[i].k, subtask |-> d[i].v,
             fate |-> fates[i], settled |-> FALSE]]

\* The for loop of distributeTask: one promise per assignment whose agent is
\* registered; execute is called for each in turn.  k > 0: the k-th execute
\* throws when called, which ends the loop (and the call) there.
DispatchLoop(assignments, ags, k, fates) ==
    LET d == SelectSeq(assignments, LAMBDA a : MapHas(ags, a.k))
        cnt == IF k = 0 THEN Len(d) ELSE k - 1
    IN  [i \in 1..cnt |->
            [agentId |-> d[i].k, subtask |-> d[i].v,
             fate |-> fates[i], settled |-> FALSE]]

\* execute(subtask).then(result => ...).catch(error => ...), once settled.
Wrapped(p) ==
    IF p.fate = "resolve"
    THEN [agentId |-> p.agentId, success |-> TRUE,
          result |-> ResultOf(p.subtask), error |-> <<>>]
    ELSE [agentId |-> p.agentId, success |-> FALSE,
          result |-> <<>>, error |-> ErrorOf(p.subtask)]

\* The entries in the order in which the promises settled.
allSettledCompletionOrder(promises, order) ==
    [i \in 1..Len(promises) |->
        [status |-> "fulfilled", value |-> Wrapped(promises[order[i]]),
         reason |-> <<>>]]

\* Promise.allSettled(promises): one entry per promise, in the order of the
\* array it was given; order is the order in which the promises settled.
allSettled(promises, order) ==
    [i \in 1..Len(promises) |->
        [status |-> "fulfilled", value |-> Wrapped(promises[i]), reason |-> <<>>]]

\* Promise.race / Promise.any in place of allSettled: one settled promise is enough.
AllDoneAny(promises) ==
    promises = <<>> \/ \E i \in 1..Len(promises) : promises[i].settled

\* Promise.allSettled resolves once every promise of the array has settled.
AllDone(promises) == \A i \in 1..Len(promises) : promises[i].settled

IsSuccessful(r) == r.status = "fulfilled" /\ r.value.success
IsFailed(r) == r.status = "rejected" \/ ~r.value.success
ResultField(r) == r.value.result
\* r.value.error || r.reason ; r.value is undefined for a rejected entry
ErrorField(r) == IF r.value.error # <<>> THEN r.value.error ELSE r.reason

\* failed without its "|| !r.value.success" half
aggregateResultsOnlyRejected(results) ==
    LET successful == SelectSeq(results, IsSuccessful)
        failed == SelectSeq(results, LAMBDA r : r.status = "rejected")
    IN  [threw |-> \E i \in 1..Len(failed) : failed[i].status = "rejected",
         totalTasks |-> Len(results),
         successful |-> Len(successful),
         failed |-> Len(failed),
         successRate |-> JsDiv(Len(successful), Len(results)),
         data |-> [i \in 1..Len(successful) |-> ResultField(successful[i])],
         errors |-> [i \in 1..Len(failed) |-> ErrorField(failed[i])]]

aggregateResults(results) ==
    LET successful == SelectSeq(results, IsSuccessful)
        failed == SelectSeq(results, IsFailed)
    IN  [threw |-> \E i \in 1..Len(failed) : failed[i].status = "rejected",
         totalTasks |-> Len(results),
         successful |-> Len(successful),
         failed |-> Len(failed),
         successRate |-> JsDiv(Len(successful), Len(results)),
         data |-> [i \in 1..Len(successful) |-> ResultField(successful[i])],
         errors |-> [i \in 1..Len(failed) |-> ErrorField(failed[i])]]

\* The loop counts a task for every agent it dispatches to.
AgentsAfterDispatchCounted(ags, promises) ==
    [n \in 1..Len(ags) |->
        IF \E i \in 1..Len(promises) : promises[i].agentId = ags[n].k
        THEN [ags[n] EXCEPT !.v.tasksCompleted = @ + 1]
        ELSE ags[n]]

\* The loop marks every agent it dispatches to as busy.
AgentsAfterDispatchBusy(ags, promises) ==
    [n \in 1..Len(ags) |->
        IF \E i \in 1..Len(promises) : promises[i].agentId = ags[n].k
        THEN [ags[n] EXCEPT !.v.status = "busy"]
        ELSE ags[n]]

\* The registry after the dispatch loop: the loop reads agent.instance and
\* writes no field of any agent.
AgentsAfterDispatch(ags, promises) == ags

registerAgent(agentId, hasSync) ==
    /\ agents' = MapSet(agents, agentId, AgentRecord(hasSync))
    /\ UNCHANGED <<tasks, calls, syncs, replayVars>>

\* distributeTask up to its await: the key, the allocation, the dispatch loop.
distributeTask(taskId, taskKey, m, k, fates) ==
    /\ LET subtasks == [i \in 1..m |-> i]
           assignments == allocateSubtasks(agents, subtasks)
           promises == DispatchLoop(assignments, agents, k, fates)
       IN  /\ calls' = Append(calls,
               [taskId |-> taskId, taskKey |-> taskKey, subtasks |-> subtasks,
                assignments |-> assignments, promises |-> promises,
                threwAt |-> k, order |-> <<>>,
                pc |-> IF k = 0 THEN "awaiting" ELSE "threw",
                results |-> <<>>, summary |-> aggregateResults(<<>>)])
           /\ agents' = AgentsAfterDispatch(agents, promises)
    /\ UNCHANGED <<tasks, syncs, replayVars>>

Distribute ==
    /\ Len(calls) < MaxCalls
    /\ \E taskId \in TaskIds, taskKey \in TaskKeys, m \in 0..MaxSubtasks :
        LET n == Len(SelectSeq(allocateSubtasks(agents, [i \in 1..m |-> i]),
                               LAMBDA a : MapHas(agents, a.k)))
        IN  \E k \in 0..n :
                \E fates \in [1..(IF k = 0 THEN n ELSE k - 1) -> Fates] :
                    distributeTask(taskId, taskKey, m, k, fates)

\* One dispatched execution settles (its promise resolves or rejects).
Settle(c, i) ==
    /\ c \in 1..Len(calls)
    /\ i \in 1..Len(calls[c].promises)
    /\ ~calls[c].promises[i].settled
    /\ calls[c].promises[i].fate # "hang"
    /\ calls' = [calls EXCEPT ![c].promises[i].settled = TRUE,
                              ![c].order = Append(@, i)]
    /\ UNCHANGED <<agents, tasks, syncs, replayVars>>

\* distributeTask after its await: the history entry and the summary.
Return(c) ==
    /\ c \in 1..Len(calls)
    /\ calls[c].pc = "awaiting"
    /\ AllDone(calls[c].promises)
    /\ LET results == allSettled(calls[c].promises, calls[c].order)
           summary == aggregateResults(results)
       IN  /\ tasks' = MapSet(tasks, calls[c].taskKey,
                              [taskId |-> calls[c].taskId, results |-> results])
           /\ calls' = [calls EXCEPT
                           ![c].pc = IF summary.threw THEN "threw" ELSE "returned",
                           ![c].results = results,
                           ![c].summary = summary]
    /\ UNCHANGED <<agents, syncs, replayVars>>

\* agent && agent.instance.sync, for the id at position p of agentIds
Syncable(ids, p, ags) ==
    MapHas(ags, ids[p]) /\ MapGet(ags, ids[p]).instance.sync

\* The for loop of synchronizeAgents from position p on: the first position
\* whose agent is registered and has sync, Len(ids) + 1 when there is none.
RECURSIVE NextSyncable(_, _, _)
NextSyncable(ids, p, ags) ==
    IF p > Len(ids) THEN p
    ELSE IF Syncable(ids, p, ags) THEN p
    ELSE NextSyncable(ids, p + 1, ags)

\* The loop without its await (every sync() called in one run).
SyncStartsAll(ids, p, ags) ==
    {q \in p..Len(ids) : Syncable(ids, q, ags)}

\* The positions whose sync() one run of the loop calls before it awaits.
SyncStarts(ids, p, ags) ==
    LET q == NextSyncable(ids, p, ags)
    IN  IF q <= Len(ids) THEN {q} ELSE {}

\* One run of the loop from position p up to its next await, its throw or its
\* end.  throws: the sync() it calls throws when called.
RunSync(frame, p, ags, throws) ==
    LET q == NextSyncable(frame.ids, p, ags)
        st == SyncStarts(frame.ids, p, ags)
    IN  [frame EXCEPT
            !.pos = q,
            !.started = @ \cup st,
            !.skipped = @ \cup ((p..(q - 1)) \ st),
            !.inflight = IF throws THEN {} ELSE st,
            !.pc = IF st = {} THEN "done"
                   ELSE IF throws THEN "threw" ELSE "awaiting"]

NewSyncFrame(ids) ==
    [ids |-> ids, pos |-> 0, started |-> {}, skipped |-> {},
     inflight |-> {}, pc |-> "awaiting"]

SyncIdSeqs == UNION {[1..n -> AgentIds] : n \in 0..MaxSyncIds}

synchronizeAgents(ids, throws) ==
    /\ Len(syncs) < MaxSyncCalls
    /\ throws => SyncStarts(ids, 1, agents) # {}
    /\ syncs' = Append(syncs, RunSync(NewSyncFrame(ids), 1, agents, throws))
    /\ UNCHANGED <<agents, tasks, calls, replayVars>>

\* The awaited sync() resolves: the loop goes on with the next id.
SyncResolve(s, throws) ==
    /\ s \in 1..Len(syncs)
    /\ syncs[s].pc = "awaiting"
    /\ throws => SyncStarts(syncs[s].ids, syncs[s].pos + 1, agents) # {}
    /\ syncs' = [syncs EXCEPT ![s] =
                    RunSync([syncs[s] EXCEPT !.inflight = {}],
                            syncs[s].pos + 1, agents, throws)]
    /\ UNCHANGED <<agents, tasks, calls, replayVars>>

\* The awaited sync() rejects: synchronizeAgents rejects with it.
SyncReject(s) ==
    /\ s \in 1..Len(syncs)
    /\ syncs[s].pc = "awaiting"
    /\ syncs' = [syncs EXCEPT ![s].inflight = {}, ![s].pc = "threw"]
    /\ UNCHANGED <<agents, tasks, calls, replayVars>>

----------------------------------------------------------------------------
(* The coordinator's specification *)

Init ==
    /\ agents = <<>>
    /\ tasks = <<>>
    /\ calls = <<>>
    /\ syncs = <<>>
    /\ replays = <<>>
    /\ patterns = <<>>
    /\ recorded = <<>>
    /\ disk = <<>>
    /\ saving = <<>>
    /\ loading = <<>>
    /\ ret = [op |-> "none", args |-> [none |-> TRUE], value |-> [type |-> "undefined"]]
    /\ nOps = 0
    /\ streak = NoStreak

\* distributeTask never reads instance.sync: its runs register handles without.
Register == \E id \in AgentIds : registerAgent(id, FALSE)

RegisterSync == \E id \in AgentIds, hasSync \in BOOLEAN : registerAgent(id, hasSync)

SettleStep == \E c \in 1..MaxCalls, i \in 1..MaxSubtasks : Settle(c, i)

ReturnStep == \E c \in 1..MaxCalls : Return(c)

Synchronize == \E ids \in SyncIdSeqs, throws \in BOOLEAN : synchronizeAgents(ids, throws)

SyncResolveStep == \E s \in 1..MaxSyncCalls, throws \in BOOLEAN : SyncResolve(s, throws)

SyncRejectStep == \E s \in 1..MaxSyncCalls : SyncReject(s)

Next ==
    \/ Register
    \/ Distribute
    \/ SettleStep
    \/ ReturnStep

Spec == Init /\ [][Next]_vars

SyncNext ==
    \/ RegisterSync
    \/ Synchronize
    \/ SyncResolveStep
    \/ SyncRejectStep

SyncSpec == Init /\ [][SyncNext]_vars

\* The event loop runs every continuation that is ready: a promise that is going
\* to settle does settle, and a call whose await is over resumes.
FairSpec == Init /\ [][Next]_vars /\ WF_vars(SettleStep) /\ WF_vars(ReturnStep)

\* Calls of distributeTask that overlap: a caller starts the next one while
\* executions of the earlier ones are in flight.  Every execute returns a
\* promise that resolves.
OverlapSubtasks == {1, 2}

OverlapDistribute ==
    /\ Len(calls) < MaxOverlap
    /\ \E taskId \in TaskIds, taskKey \in TaskKeys, m \in OverlapSubtasks :
        distributeTask(taskId, taskKey, m, 0, [i \in 1..m |-> "resolve"])

OverlapSettle == \E c \in 1..MaxOverlap, i \in 1..MaxSubtasks : Settle(c, i)

OverlapReturn == \E c \in 1..MaxOverlap : Return(c)

OverlapNext ==
    \/ Register
    \/ OverlapDistribute
    \/ OverlapSettle
    \/ OverlapReturn

OverlapSpec == Init /\ [][OverlapNext]_vars

\* Register, distribute and synchronize calls in any interleaving: one or two
\* subtasks per call; execute throws, or its promise resolves or rejects;
\* sync() throws, resolves or rejects.
CoordSyncIds == {<<"A">>, <<"B", "A">>}

CoordFates == {"resolve", "reject"}

CoordDistribute ==
    /\ Len(calls) + Len(syncs) < MaxCoordCalls
    /\ Len(calls) < MaxCalls
    /\ \E taskId \in TaskIds, taskKey \in {"k1"}, m \in OverlapSubtasks :
        LET n == Len(SelectSeq(allocateSubtasks(agents, [i \in 1..m |-> i]),
                               LAMBDA a : MapHas(agents, a.k)))
        IN  \E k \in 0..n :
                \E fates \in [1..(IF k = 0 THEN n ELSE k - 1) -> CoordFates] :
                    distributeTask(taskId, taskKey, m, k, fates)

CoordSynchronize ==
    /\ Len(calls) + Len(syncs) < MaxCoordCalls
    /\ \E ids \in CoordSyncIds, throws \in BOOLEAN : synchronizeAgents(ids, throws)

CoordNext ==
    \/ RegisterSync
    \/ CoordDistribute
    \/ SettleStep
    \/ ReturnStep
    \/ CoordSynchronize
    \/ SyncResolveStep
    \/ SyncRejectStep

CoordSpec == Init /\ [][CoordNext]_vars

----------------------------------------------------------------------------
(* ReplaySystem *)

\* An action type is a string, kept as its sequence of characters.
TypeM == <<"m">>
TypeC == <<"c">>
TypeK == <<"k">>

Act(t) == [type |-> t]

\* The action lists recordSession is called with.
ActionSeqs ==
    { <<Act(TypeM), Act(TypeC)>>,
      <<Act(TypeM), Act(TypeC), Act(TypeK)>>,
      <<Act(TypeM), Act(TypeC), Act(TypeK), Act(TypeM)>>,
      <<Act(TypeM), Act(TypeM), Act(TypeM), Act(TypeM)>> }

GameTypes == {"Roblox"}
SuccessRates == {40, 90}
\* crypto.randomBytes(8).toString('hex')
SessionIds == {"s1", "s2"}

\* [a, b, c].join('-')
Join3(a, b, c) == a \o <<"-">> \o b \o <<"-">> \o c

\* The loop with i < actions.length - 3: the last window is never read.
RECURSIVE ExtractLoopShort(_, _, _, _)
ExtractLoopShort(actions, i, list, table) ==
    IF i > Len(actions) - 3 THEN [patterns |-> list, table |-> table]
    ELSE LET triple == Join3(actions[i].type, actions[i + 1].type, actions[i + 2].type)
             t1 == IF ~MapHas(table, triple)
                   THEN MapSet(table, triple, [count |-> 0, successTotal |-> 0])
                   ELSE table
             patternData == MapGet(t1, triple)
             t2 == MapSet(t1, triple, [patternData EXCEPT !.count = @ + 1])
         IN  ExtractLoopShort(actions, i + 1, Append(list, triple), t2)

\* The loop with count++ inside the if: only a new signature is counted.
RECURSIVE ExtractLoopCountOnce(_, _, _, _)
ExtractLoopCountOnce(actions, i, list, table) ==
    IF i > Len(actions) - 2 THEN [patterns |-> list, table |-> table]
    ELSE LET triple == Join3(actions[i].type, actions[i + 1].type, actions[i + 2].type)
             t2 == IF ~MapHas(table, triple)
                   THEN MapSet(table, triple, [count |-> 1, successTotal |-> 0])
                   ELSE table
         IN  ExtractLoopCountOnce(actions, i + 1, Append(list, triple), t2)

\* The loop without its set(): a signature new to the table is pushed to the
\* list and gets no entry.
RECURSIVE ExtractLoopNoCreate(_, _, _, _)
ExtractLoopNoCreate(actions, i, list, table) ==
    IF i > Len(actions) - 2 THEN [patterns |-> list, table |-> table]
    ELSE LET triple == Join3(actions[i].type, actions[i + 1].type, actions[i + 2].type)
             t2 == IF MapHas(table, triple)
                   THEN MapSet(table, triple,
                               [MapGet(table, triple) EXCEPT !.count = @ + 1])
                   ELSE table
         IN  ExtractLoopNoCreate(actions, i + 1, Append(list, triple), t2)

\* The for loop of extractPatterns from index i (1-based) on: the signatures
\* pushed and the pattern table it leaves.
RECURSIVE ExtractLoop(_, _, _, _)
ExtractLoop(actions, i, list, table) ==
    IF i > Len(actions) - 2 THEN [patterns |-> list, table |-> table]
    ELSE LET triple == Join3(actions[i].type, actions[i + 1].type, actions[i + 2].type)
             t1 == IF ~MapHas(table, triple)
                   THEN MapSet(table, triple, [count |-> 0, successTotal |-> 0])
                   ELSE table
             patternData == MapGet(t1, triple)
             t2 == MapSet(t1, triple, [patternData EXCEPT !.count = @ + 1])
         IN  ExtractLoop(actions, i + 1, Append(list, triple), t2)

extractPatterns(actions, table) == ExtractLoop(actions, 1, <<>>, table)

\* pop() in place of shift(): the newest session goes, not the oldest.
PushSessionPop(list, session) ==
    LET pushed == Append(list, session)
    IN  IF Len(pushed) > MaxReplays THEN SubSeq(pushed, 1, Len(pushed) - 1) ELSE pushed

\* this.replays.push(session); if (length > maxReplays) this.replays.shift()
PushSession(list, session) ==
    LET pushed == Append(list, session)
    IN  IF Len(pushed) > MaxReplays THEN Tail(pushed) ELSE pushed

recordSession(gameType, actions, successRate, sessionId) ==
    /\ Len(recorded) < MaxRecords
    /\ LET ex == extractPatterns(actions, patterns)
           session == [id |-> sessionId, gameType |-> gameType,
                       actions |-> actions, successRate |-> successRate,
                       patterns |-> ex.patterns]
       IN  /\ replays' = PushSession(replays, session)
           /\ patterns' = ex.table
           /\ recorded' = Append(recorded, session)
    /\ ret' = [op |-> "record",
               args |-> [gameType |-> gameType, actions |-> actions,
                         successRate |-> successRate],
               value |-> [type |-> "string", str |-> sessionId]]
    /\ nOps' = nOps + 1
    /\ streak' = NoStreak
    /\ UNCHANGED <<coordVars, disk, saving, loading>>

Record ==
    \E gameType \in GameTypes, actions \in ActionSeqs,
       successRate \in SuccessRates, sessionId \in SessionIds :
        recordSession(gameType, actions, successRate, sessionId)

RecordNext == Record

RecordSpec == Init /\ [][RecordNext]_vars

----------------------------------------------------------------------------
\* ReplaySystem: learning, ranking and persistence.

Thresholds == {70, 90}

\* r.successRate > threshold in place of >=.
QualifiesStrict(r, threshold) == r.successRate > threshold

\* The filter predicate of learnFromSuccessfulReplays.
Qualifies(r, threshold) == r.successRate >= threshold

\* data.successTotal = replay.successRate in place of +=.
RECURSIVE LearnPatternsAssign(_, _, _, _)
LearnPatternsAssign(table, list, rate, learned) ==
    IF list = <<>> THEN [table |-> table, learned |-> learned]
    ELSE LET pattern == Head(list)
         IN  IF MapHas(table, pattern)
             THEN LET data == MapGet(table, pattern)
                  IN  LearnPatternsAssign(MapSet(table, pattern,
                                             [data EXCEPT !.successTotal = rate]),
                                          Tail(list), rate, learned + 1)
             ELSE LearnPatternsAssign(table, Tail(list), rate, learned)

\* The inner for loop: one session's pattern list folded into the table.
RECURSIVE LearnPatterns(_, _, _, _)
LearnPatterns(table, list, rate, learned) ==
    IF list = <<>> THEN [table |-> table, learned |-> learned]
    ELSE LET pattern == Head(list)
         IN  IF MapHas(table, pattern)
             THEN LET data == MapGet(table, pattern)
                  IN  LearnPatterns(MapSet(table, pattern,
                                       [data EXCEPT !.successTotal = @ + rate]),
                                    Tail(list), rate, learned + 1)
             ELSE LearnPatterns(table, Tail(list), rate, learned)

\* The outer for loop over the successful replays.
RECURSIVE LearnLoop(_, _, _)
LearnLoop(table, successful, learned) ==
    IF successful = <<>> THEN [table |-> table, learned |-> learned]
    ELSE LET replay == Head(successful)
             one == LearnPatterns(table, replay.patterns, replay.successRate, learned)
         IN  LearnLoop(one.table, Tail(successful), one.learned)

learnFromSuccessfulReplays(threshold) ==
    LET successfulReplays == SelectSeq(replays, LAMBDA r : Qualifies(r, threshold))
        done == LearnLoop(patterns, successfulReplays, 0)
    IN  /\ patterns' = done.table
        /\ ret' = [op |-> "learn", args |-> [threshold |-> threshold],
                   value |-> [type |-> "object",
                              successfulReplays |-> Len(successfulReplays),
                              patternsLearned |-> done.learned,
                              totalPatterns |-> Len(done.table)]]
        /\ nOps' = nOps + 1
        /\ streak' = IF streak.n > 0 /\ streak.threshold = threshold
                      THEN [streak EXCEPT !.n = @ + 1]
                      ELSE [n |-> 1, threshold |-> threshold,
                            replays |-> replays, patterns |-> patterns]
        /\ UNCHANGED <<coordVars, replays, recorded, disk, saving, loading>>

\* A derived success rate is the exact quotient num/den, den > 0.
RateGE(x, y) == x.num * y.den >= y.num * x.den

\* The map callback of getRecommendedPatterns.
ScoreOf(entry) ==
    [pattern |-> entry.k,
     successRate |-> IF entry.v.count > 0
                     THEN [num |-> entry.v.successTotal, den |-> entry.v.count]
                     ELSE [num |-> 0, den |-> 1],
     frequency |-> entry.v.count]

\* The comparator (a, b) => b.successRate - a.successRate under the stable
\* Array.prototype.sort: e goes behind every score at least as high.
InsertByScore(sorted, e) ==
    LET ahead == {i \in 1..Len(sorted) : RateGE(sorted[i].successRate, e.successRate)}
        n == Cardinality(ahead)
    IN  SubSeq(sorted, 1, n) \o <<e>> \o SubSeq(sorted, n + 1, Len(sorted))

RECURSIVE SortByScore(_)
SortByScore(s) ==
    IF s = <<>> THEN <<>>
    ELSE InsertByScore(SortByScore(SubSeq(s, 1, Len(s) - 1)), s[Len(s)])

\* .slice(0, topK) for topK >= 0
SliceTo(s, topK) == SubSeq(s, 1, IF topK < Len(s) THEN topK ELSE Len(s))

\* The scores in table order, neither sorted nor cut.
getRecommendedPatternsUnsorted(table, topK) ==
    SliceTo([i \in 1..Len(table) |-> ScoreOf(table[i])], topK)

getRecommendedPatterns(table, topK) ==
    SliceTo(SortByScore([i \in 1..Len(table) |-> ScoreOf(table[i])]), topK)

Recommend(topK) ==
    /\ ret' = [op |-> "recommend", args |-> [topK |-> topK],
               value |-> [type |-> "array",
                          items |-> getRecommendedPatterns(patterns, topK)]]
    /\ nOps' = nOps + 1
    /\ UNCHANGED <<coordVars, replays, patterns, recorded, disk, saving, loading, streak>>

\* A snapshot file: whether it can be read and parsed, and what the parsed
\* object holds under the keys replays and patterns.
Snapshot(parses, hasReplays, rs, patternsKind, entries) ==
    [parses |-> parses, hasReplays |-> hasReplays, replays |-> rs,
     patternsKind |-> patternsKind, patterns |-> entries]

\* The data object without its patterns key.
SerializeReplaysOnly(rs, table) == Snapshot(TRUE, TRUE, rs, "missing", <<>>)

\* The data object of saveReplays as JSON.stringify writes it: the sessions
\* and Array.from(this.patterns.entries()), an array of [key, value] pairs.
Serialize(rs, table) ==
    Snapshot(TRUE, TRUE, rs, "entries",
             [i \in 1..Len(table) |-> <<table[i].k, table[i].v>>])

\* new Map(entries): the pairs set one after another, a later pair with the
\* same key replacing the value of the earlier one.
RECURSIVE MapFromEntries(_, _)
MapFromEntries(entries, m) ==
    IF entries = <<>> THEN m
    ELSE MapFromEntries(Tail(entries), MapSet(m, Head(entries)[1], Head(entries)[2]))

\* What saveReplays returns: the try block and the catch block both fall off
\* the end of the function.
SaveReturn(written) == [type |-> "undefined"]

\* saveReplays up to its await: the data object is built and serialized.
saveReplays ==
    /\ saving' = Append(saving, [content |-> Serialize(replays, patterns),
                                 from |-> [replays |-> replays, patterns |-> patterns]])
    /\ nOps' = nOps + 1
    /\ UNCHANGED <<coordVars, replays, patterns, recorded, disk, loading, ret, streak>>

\* fs.writeFile settles: fulfilled (the file exists) or rejected.
SaveDone(written) ==
    /\ saving # <<>>
    /\ saving' = Tail(saving)
    /\ disk' = IF written THEN Append(disk, Head(saving)) ELSE disk
    /\ ret' = [op |-> "save", args |-> [dir |-> "data"], value |-> SaveReturn(written)]
    /\ UNCHANGED <<coordVars, replays, patterns, recorded, loading, nOps, streak>>

SampleSession ==
    [id |-> "s1", gameType |-> "Roblox", actions |-> <<Act(TypeM), Act(TypeC), Act(TypeK)>>,
     successRate |-> 90, patterns |-> <<Join3(TypeM, TypeC, TypeK)>>]

\* Snapshot files that exist beside the ones this store writes: one written
\* by a store of larger capacity, one without a patterns key, one without a
\* replays key, one whose patterns value is not iterable, one unreadable.
ExternalFiles ==
    [big |-> Snapshot(TRUE, TRUE, [i \in 1..(MaxReplays + 1) |-> SampleSession], "entries",
                      <<<<Join3(TypeM, TypeC, TypeK),
                          [count |-> MaxReplays + 1, successTotal |-> 0]>>>>),
     noPatterns |-> Snapshot(TRUE, TRUE, <<SampleSession>>, "missing", <<>>),
     noReplays |-> Snapshot(TRUE, FALSE, <<>>, "entries",
                      <<<<Join3(TypeM, TypeC, TypeK), [count |-> 0, successTotal |-> 0]>>,
                        <<Join3(TypeC, TypeK, TypeM), [count |-> 1, successTotal |-> 90]>>>>),
     badPatterns |-> Snapshot(TRUE, TRUE, <<SampleSession>>, "malformed", <<>>),
     unreadable |-> Snapshot(FALSE, FALSE, <<>>, "missing", <<>>)]

\* A file name: one of the external files, or the n-th file saveReplays wrote.
FileNames ==
    {[kind |-> "external", name |-> x, n |-> 0] : x \in DOMAIN ExternalFiles}
    \cup {[kind |-> "saved", name |-> "replays", n |-> i] : i \in 1..Len(disk)}

FileAt(filename) == IF filename.kind = "external" THEN ExternalFiles[filename.name]
                    ELSE disk[filename.n].content

\* loadReplays up to its await: fs.readFile is started.
loadReplays(filename) ==
    /\ loading' = Append(loading, [filename |-> filename,
                                    recordedAtCall |-> Len(recorded)])
    /\ nOps' = nOps + 1
    /\ UNCHANGED <<coordVars, replays, patterns, recorded, disk, saving, ret, streak>>

\* A load that adds the snapshot to the store: the sessions appended, the
\* entries set into the table that is there.
LoadOutcomeMerge(file, rs, table) ==
    IF ~file.parses THEN [ok |-> FALSE, replays |-> rs, patterns |-> table]
    ELSE LET rs2 == rs \o (IF file.hasReplays THEN file.replays ELSE <<>>)
         IN  IF file.patternsKind = "malformed"
             THEN [ok |-> FALSE, replays |-> rs2, patterns |-> table]
             ELSE [ok |-> TRUE, replays |-> rs2,
                   patterns |-> MapFromEntries(IF file.patternsKind = "entries"
                                               THEN file.patterns ELSE <<>>, table)]

\* loadReplays from the settlement of readFile on: JSON.parse, the two
\* assignments in their order, and the catch block.
LoadOutcome(file, rs, table) ==
    IF ~file.parses THEN [ok |-> FALSE, replays |-> rs, patterns |-> table]
    ELSE LET rs2 == IF file.hasReplays THEN file.replays ELSE <<>>
         IN  IF file.patternsKind = "malformed"
             THEN [ok |-> FALSE, replays |-> rs2, patterns |-> table]
             ELSE [ok |-> TRUE, replays |-> rs2,
                   patterns |-> MapFromEntries(IF file.patternsKind = "entries"
                                               THEN file.patterns ELSE <<>>, <<>>)]

LoadDone ==
    /\ loading # <<>>
    /\ LET out == LoadOutcome(FileAt(Head(loading).filename), replays, patterns)
       IN  /\ replays' = out.replays
           /\ patterns' = out.patterns
           /\ ret' = [op |-> "load",
                      recordedAtCall |-> Head(loading).recordedAtCall,
                      args |-> [filename |-> Head(loading).filename],
                      value |-> [type |-> "boolean", bool |-> out.ok]]
    /\ loading' = Tail(loading)
    /\ streak' = NoStreak
    /\ UNCHANGED <<coordVars, recorded, disk, saving, nOps>>

StoreSessions ==
    {<<<<Act(TypeM), Act(TypeC), Act(TypeK)>>, 90>>,
     <<<<Act(TypeM), Act(TypeC), Act(TypeK), Act(TypeM)>>, 40>>,
     <<<<Act(TypeM), Act(TypeM), Act(TypeM), Act(TypeM)>>, 70>>}

StoreRecord ==
    /\ nOps < MaxOps
    /\ \E s \in StoreSessions : recordSession("Roblox", s[1], s[2], "s1")

StoreLearn ==
    /\ nOps < MaxOps
    /\ \E threshold \in Thresholds : learnFromSuccessfulReplays(threshold)

StoreRecommend ==
    /\ nOps < MaxOps
    /\ \E topK \in 0..MaxTopK : Recommend(topK)

StoreSave ==
    /\ nOps < MaxOps
    /\ saving = <<>>
    /\ saveReplays

StoreSaveDone == \E written \in BOOLEAN : SaveDone(written)

StoreLoad ==
    /\ nOps < MaxOps
    /\ loading = <<>>
    /\ \E filename \in FileNames : loadReplays(filename)

StoreLoadDone == LoadDone

ReplayNext ==
    \/ StoreRecord
    \/ StoreLearn
    \/ StoreRecommend
    \/ StoreSave
    \/ StoreSaveDone
    \/ StoreLoad
    \/ StoreLoadDone

ReplaySpec == Init /\ [][ReplayNext]_vars

\* Record, learn and load calls only.
LearnNext ==
    \/ StoreRecord
    \/ StoreLearn
    \/ StoreLoad
    \/ StoreLoadDone

LearnSpec == Init /\ [][LearnNext]_vars

\* Record and learn calls only: the table is never replaced.
RecordLearnNext ==
    \/ StoreRecord
    \/ StoreLearn

RecordLearnSpec == Init /\ [][RecordLearnNext]_vars

----------------------------------------------------------------------------
(* Properties *)

Count(x, s) == Cardinality({i \in 1..Len(s) : s[i] = x})

\* C1: allocate with N > 0 ready agents and M subtasks returns M assignments,
\* the i-th pairing subtask i with the ready agent of rank i mod N.
C1_AllocateRoundRobin ==
    [][\A c \in 1..MaxCalls :
          (c \in DOMAIN calls' /\ c \notin DOMAIN calls) =>
              LET ranked == SelectSeq(agents, LAMBDA e : e.v.status = "ready")
                  N == Len(ranked)
                  f == calls'[c]
                  M == Len(f.subtasks)
              IN  (N > 0 /\ \A i, j \in 1..N :
                                i < j => ranked[i].v.successRate >= ranked[j].v.successRate)
                  => /\ Len(f.assignments) = M
                     /\ \A i \in 1..M :
                          /\ f.assignments[i].k = ranked[((i - 1) % N) + 1].k
                          /\ f.assignments[i].v = f.subtasks[i]]_vars

\* C2: a distribute call with M subtasks and a ready agent dispatches every
\* subtask to exactly one agent and reports totalTasks = M.
C2_EverySubtaskCounted ==
    \A c \in 1..Len(calls) :
        (calls[c].pc = "returned" /\ calls[c].assignments # <<>>) =>
            /\ calls[c].summary.totalTasks = Len(calls[c].subtasks)
            /\ \A t \in 1..Len(calls[c].subtasks) :
                 Cardinality({i \in 1..Len(calls[c].promises) :
                                calls[c].promises[i].subtask = calls[c].subtasks[t]}) = 1

\* C3: in a returned summary data and errors partition the dispatched
\* executions: the lengths add up to totalTasks, successful and failed are the
\* two lengths, and each outcome is in exactly one of the two lists.
C3_SummaryCounts ==
    \A c \in 1..Len(calls) :
        calls[c].pc = "returned" =>
            LET f == calls[c]
                sm == f.summary
            IN  /\ Len(sm.data) + Len(sm.errors) = Len(f.promises)
                /\ Len(f.promises) = Len(f.assignments)
                /\ sm.totalTasks = Len(f.promises)
                /\ sm.successful = Len(sm.data)
                /\ sm.failed = Len(sm.errors)
                /\ \A i \in 1..Len(f.promises) :
                     LET ok == <<"done", f.promises[i].subtask>>
                         bad == <<"error", f.promises[i].subtask>>
                     IN  IF f.promises[i].fate = "resolve"
                         THEN Count(ok, sm.data) = 1 /\ Count(bad, sm.errors) = 0
                         ELSE Count(ok, sm.data) = 0 /\ Count(bad, sm.errors) = 1

C3_Witness ==
    \E c \in 1..Len(calls) :
        /\ calls[c].pc = "returned"
        /\ Len(calls[c].summary.data) >= 1
        /\ Len(calls[c].summary.errors) >= 1

\* C4: a distribute call with no assignment does not raise and returns a
\* summary with totalTasks = 0 and successRate = 0.
C4_EmptySummaryRateZero ==
    \A c \in 1..Len(calls) :
        calls[c].assignments = <<>> =>
            /\ calls[c].pc # "threw"
            /\ calls[c].pc = "returned" =>
                 /\ calls[c].summary.totalTasks = 0
                 /\ ~calls[c].summary.successRate.nan
                 /\ calls[c].summary.successRate.num = 0

\* C5: an execute that rejects or throws is one entry of errors; every other
\* assignment of the call is still dispatched and recorded, and distribute
\* returns a summary instead of raising.
C5_FailureIsolated ==
    \A c \in 1..Len(calls) :
        LET f == calls[c]
        IN  /\ f.pc # "threw"
            /\ Len(f.promises) = Len(f.assignments)
            /\ f.pc = "returned" =>
                 /\ Len(f.summary.data) + Len(f.summary.errors) = Len(f.assignments)
                 /\ \A i \in 1..Len(f.promises) :
                      f.promises[i].fate = "reject" =>
                          Count(<<"error", f.promises[i].subtask>>, f.summary.errors) = 1

\* C6: whenever a distribute call waits (or has waited) for its executions,
\* the execution of every one of its assignments has been started.
C6_AllStartedBeforeWait ==
    \A c \in 1..Len(calls) :
        calls[c].pc \in {"awaiting", "returned"} =>
            /\ Len(calls[c].promises) = Len(calls[c].assignments)
            /\ \A i \in 1..Len(calls[c].assignments) :
                 /\ calls[c].promises[i].agentId = calls[c].assignments[i].k
                 /\ calls[c].promises[i].subtask = calls[c].assignments[i].v

C6_Witness ==
    \E c \in 1..Len(calls) :
        /\ calls[c].pc = "awaiting"
        /\ Len(calls[c].promises) >= 2
        /\ \A i \in 1..Len(calls[c].promises) :
             ~calls[c].promises[i].settled /\ calls[c].promises[i].fate # "hang"

\* C7: distribute returns its summary and writes the history entry only once
\* every execution it dispatched has settled; when all of them settle it does
\* return; an execution that never settles keeps the call from returning but
\* not its siblings from settling.
C7_Safe ==
    /\ \A c \in 1..Len(calls) :
         /\ calls[c].pc = "returned" =>
              \A i \in 1..Len(calls[c].promises) : calls[c].promises[i].settled
         /\ (\E i \in 1..Len(calls[c].promises) : calls[c].promises[i].fate = "hang")
              => calls[c].pc # "returned"
    /\ \A e \in 1..Len(tasks) :
         \E c \in 1..Len(calls) :
             /\ calls[c].pc = "returned"
             /\ calls[c].taskKey = tasks[e].k
             /\ \A i \in 1..Len(calls[c].promises) : calls[c].promises[i].settled

\* No execution that is going to settle is still in flight, and no call whose
\* executions all settle is still waiting.
C7_Quiescent ==
    \A c \in 1..Len(calls) :
        /\ \A i \in 1..Len(calls[c].promises) :
             calls[c].promises[i].fate # "hang" => calls[c].promises[i].settled
        /\ (\A i \in 1..Len(calls[c].promises) : calls[c].promises[i].fate # "hang")
             => calls[c].pc # "awaiting"

\* C7 (the statement checked): C7_Safe always holds, and the executions that
\* are going to settle and the calls that wait for such executions only do
\* not stay in flight: the coordinator is quiescent again and again.
C7_WaitsForAll == []C7_Safe /\ []<>C7_Quiescent

C7_Witness ==
    \E c \in 1..Len(calls) :
        /\ calls[c].pc = "awaiting"
        /\ \E i, j \in 1..Len(calls[c].promises) :
             /\ calls[c].promises[i].fate = "hang"
             /\ calls[c].promises[j].settled

\* C8: data holds the results of the successful executions and errors the
\* errors of the failed ones, both in assignment order, whatever the order in
\* which the executions settled.
C8_AssignmentOrder ==
    \A c \in 1..Len(calls) :
        calls[c].pc = "returned" =>
            LET f == calls[c]
                okIdx == SelectSeq([i \in 1..Len(f.assignments) |-> i],
                                   LAMBDA i : f.promises[i].fate = "resolve")
                badIdx == SelectSeq([i \in 1..Len(f.assignments) |-> i],
                                    LAMBDA i : f.promises[i].fate = "reject")
            IN  /\ f.summary.data =
                     [j \in 1..Len(okIdx) |-> <<"done", f.assignments[okIdx[j]].v>>]
                /\ f.summary.errors =
                     [j \in 1..Len(badIdx) |-> <<"error", f.assignments[badIdx[j]].v>>]

C8_Witness ==
    \E c \in 1..Len(calls) :
        /\ calls[c].pc = "returned"
        /\ calls[c].order = <<2, 1>>
        /\ Len(calls[c].summary.data) = 2

\* C9: synchronize handles the ids in the given order, starts the sync of an
\* id only when no sync it started earlier is still in flight, and skips the
\* ids that are unregistered or have no sync without ending the loop.
SyncFrameBefore(s) ==
    IF s <= Len(syncs) THEN syncs[s]
    ELSE [ids |-> <<>>, pos |-> 0, started |-> {}, skipped |-> {},
          inflight |-> {}, pc |-> "awaiting"]

C9_Safe ==
    \A s \in 1..Len(syncs) :
        LET f == syncs[s]
        IN  /\ Cardinality(f.inflight) <= 1
            /\ f.started \cap f.skipped = {}
            /\ \E n \in 0..Len(f.ids) : f.started \cup f.skipped = 1..n
            /\ \A q \in f.inflight :
                 /\ f.pc = "awaiting"
                 /\ q \in f.started
                 /\ f.started \cup f.skipped = 1..q
            /\ f.pc = "done" =>
                 /\ f.inflight = {}
                 /\ f.started \cup f.skipped = 1..Len(f.ids)

C9_Step ==
    \A s \in 1..MaxSyncCalls :
        s \in DOMAIN syncs' =>
            LET old == SyncFrameBefore(s)
                new == syncs'[s]
                ok(p) == /\ \E i \in 1..Len(agents) : agents[i].k = new.ids[p]
                         /\ \A i \in 1..Len(agents) :
                              agents[i].k = new.ids[p] => agents[i].v.instance.sync
            IN  /\ \A p \in new.skipped \ old.skipped : ~ok(p)
                /\ \A p \in new.started \ old.started :
                     /\ ok(p)
                     /\ new.inflight \subseteq {p}
                     /\ \A q \in old.started \cup old.skipped : q < p

\* C9 (the statement checked): C9_Safe in every state, C9_Step in every step.
C9_SyncSequential == []C9_Safe /\ [][C9_Step]_vars

C9_Witness ==
    \E s \in 1..Len(syncs) :
        /\ syncs[s].pc = "done"
        /\ syncs[s].started = {1, 2}

\* C10: after n record calls the store holds the last min(n, maxReplays)
\* sessions recorded, in the order they were recorded; a record call on a full
\* store drops exactly the oldest session.
C10_Step ==
    (recorded' # recorded /\ Len(replays) = MaxReplays) =>
        /\ Len(replays') = MaxReplays
        /\ \A i \in 1..(MaxReplays - 1) : replays'[i] = replays[i + 1]

C10_Window ==
    LET n == Len(recorded)
        kept == IF n < MaxReplays THEN n ELSE MaxReplays
    IN  /\ Len(replays) = kept
        /\ \A i \in 1..kept : replays[i] = recorded[n - kept + i]

\* C10 (the statement checked): C10_Window in every state, C10_Step in every step.
C10_FifoWindow == []C10_Window /\ [][C10_Step]_vars

C10_Witness ==
    /\ Len(recorded) = MaxReplays + 1
    /\ Len(replays) = MaxReplays
    /\ recorded[1] # recorded[2]
    /\ recorded[1] # recorded[Len(recorded)]
    /\ replays[1] = recorded[2]

\* The signature of the window of actions that starts at index i.
SignatureAt(a, i) == a[i].type \o <<"-">> \o a[i + 1].type \o <<"-">> \o a[i + 2].type

\* Occurrences of a signature in the pattern lists of a sequence of sessions.
RECURSIVE OccIn(_, _)
OccIn(sig, sessions) ==
    IF sessions = <<>> THEN 0
    ELSE Count(sig, Head(sessions).patterns) + OccIn(sig, Tail(sessions))

CountOf(table, sig) ==
    IF \E i \in 1..Len(table) : table[i].k = sig
    THEN table[CHOOSE i \in 1..Len(table) : table[i].k = sig].v.count
    ELSE 0

C12_Lists ==
    \A s \in 1..Len(recorded) :
        LET a == recorded[s].actions
            p == recorded[s].patterns
        IN  /\ Len(p) = (IF Len(a) > 2 THEN Len(a) - 2 ELSE 0)
            /\ \A i \in 1..Len(p) : p[i] = SignatureAt(a, i)

C12_Step ==
    (recorded' # recorded /\ Len(recorded'[Len(recorded')].actions) < 3)
        => patterns' = patterns

\* C12: extract returns max(L - 2, 0) signatures for L actions, the i-th being
\* the types of actions i, i+1, i+2 joined by '-'; with fewer than 3 actions it
\* returns none and leaves the pattern table as it was.
C12_ExtractCount == []C12_Lists /\ [][C12_Step]_vars

C12_Witness ==
    /\ \E s \in 1..Len(recorded) :
         Len(recorded[s].actions) = 4 /\ Len(recorded[s].patterns) = 2
    /\ \E s \in 1..Len(recorded) :
         Len(recorded[s].actions) = 2 /\ recorded[s].patterns = <<>>

C13_Table ==
    /\ \A i, j \in 1..Len(patterns) : patterns[i].k = patterns[j].k => i = j
    /\ \A i \in 1..Len(patterns) :
         patterns[i].v.count = OccIn(patterns[i].k, recorded)
    /\ \A s \in 1..Len(recorded) :
         \A j \in 1..Len(recorded[s].patterns) :
             \E i \in 1..Len(patterns) : patterns[i].k = recorded[s].patterns[j]

C13_Step ==
    recorded' # recorded =>
        LET new == recorded'[Len(recorded')]
        IN  \A i \in 1..Len(patterns') :
                LET sig == patterns'[i].k
                IN  /\ patterns'[i].v.count =
                         CountOf(patterns, sig) + Count(sig, new.patterns)
                    /\ IF \E j \in 1..Len(patterns) : patterns[j].k = sig
                       THEN i <= Len(patterns) /\ patterns[i].k = sig
                            /\ patterns'[i].v.successTotal = patterns[i].v.successTotal
                       ELSE patterns'[i].v.successTotal = 0

\* C13: a record call adds to the count of each signature the number of its
\* occurrences in the session, whatever the successRate, a new entry starting
\* from count 0 and successTotal 0; so every count is the number of occurrences
\* over all sessions ever recorded, evicted ones included.
C13_CountsOccurrences == []C13_Table /\ [][C13_Step]_vars

C13_Witness ==
    /\ Len(recorded) > MaxReplays
    /\ \E s \in 1..Len(recorded) : recorded[s].successRate = 40 /\ recorded[s].patterns # <<>>
    /\ \E i \in 1..Len(patterns) :
         /\ patterns[i].v.count >= 3
         /\ OccIn(patterns[i].k, replays) < patterns[i].v.count

\* C11, as stated: in every state the store can reach by record, learn, save
\* and load of any snapshot, the number of stored sessions is at most
\* maxReplays.
C11_CapacityBound == Len(replays) <= MaxReplays

----------------------------------------------------------------------------
\* A step in which one learnFromSuccessfulReplays call runs.
LearnStep ==
    /\ ret'.op = "learn" /\ nOps' = nOps + 1
    /\ saving' = saving /\ loading' = loading

\* Occurrences of sig in the pattern lists of the sessions at or above thr.
RECURSIVE QualOcc(_, _, _)
QualOcc(sig, sessions, thr) ==
    IF sessions = <<>> THEN 0
    ELSE (IF Head(sessions).successRate >= thr
          THEN Count(sig, Head(sessions).patterns) ELSE 0)
         + QualOcc(sig, Tail(sessions), thr)

\* The successRate of every such occurrence, summed.
RECURSIVE RateSum(_, _, _)
RateSum(sig, sessions, thr) ==
    IF sessions = <<>> THEN 0
    ELSE (IF Head(sessions).successRate >= thr
          THEN Head(sessions).successRate * Count(sig, Head(sessions).patterns) ELSE 0)
         + RateSum(sig, Tail(sessions), thr)

\* Occurrences, in the sessions at or above thr, of the signatures of table.
RECURSIVE FoldedIn(_, _, _)
FoldedIn(table, sessions, thr) ==
    IF table = <<>> THEN 0
    ELSE QualOcc(Head(table).k, sessions, thr) + FoldedIn(Tail(table), sessions, thr)

TotalOf(table, sig) ==
    IF \E i \in 1..Len(table) : table[i].k = sig
    THEN table[CHOOSE i \in 1..Len(table) : table[i].k = sig].v.successTotal
    ELSE 0

\* C14, as stated: one learn call adds, for every stored session at or above
\* the threshold and every occurrence of a signature in its pattern list, the
\* session's successRate to that signature's successTotal.
C14_EveryOccurrenceAdded ==
    [][LearnStep =>
        \A i \in 1..Len(replays) :
            replays[i].successRate >= ret'.args.threshold =>
                \A j \in 1..Len(replays[i].patterns) :
                    LET sig == replays[i].patterns[j]
                    IN  /\ \E n \in 1..Len(patterns') : patterns'[n].k = sig
                        /\ TotalOf(patterns', sig)
                             = TotalOf(patterns, sig) + RateSum(sig, replays, ret'.args.threshold)]_vars

\* C14, amended: one learn call adds, for every stored session at or above
\* the threshold and every occurrence in its pattern list of a signature that
\* is in the pattern table, the session's successRate to that signature's
\* successTotal; it changes nothing else (no entry is added, no count moves,
\* sessions below the threshold and sessions no longer stored add nothing);
\* it returns successfulReplays = number of stored sessions at or above the
\* threshold, patternsLearned = number of occurrences folded in,
\* totalPatterns = table size.
C14_LearnFolds ==
    [][LearnStep =>
        /\ replays' = replays
        /\ Len(patterns') = Len(patterns)
        /\ \A n \in 1..Len(patterns) :
            /\ patterns'[n].k = patterns[n].k
            /\ patterns'[n].v.count = patterns[n].v.count
            /\ patterns'[n].v.successTotal
                 = patterns[n].v.successTotal + RateSum(patterns[n].k, replays, ret'.args.threshold)
        /\ ret'.value.successfulReplays
             = Cardinality({i \in 1..Len(replays) : replays[i].successRate >= ret'.args.threshold})
        /\ ret'.value.patternsLearned = FoldedIn(patterns, replays, ret'.args.threshold)
        /\ ret'.value.totalPatterns = Len(patterns)]_vars

\* Sessions [m-c-k] at 0.9 and [m-c-k, c-k-m] at 0.4 learned at 0.7: 0.9 is
\* added to m-c-k only.
C14_Witness ==
    /\ ret.op = "learn" /\ ret.args.threshold = 70
    /\ Len(replays) = 2
    /\ replays[1].patterns = <<Join3(TypeM, TypeC, TypeK)>>
    /\ replays[1].successRate = 90
    /\ replays[2].patterns = <<Join3(TypeM, TypeC, TypeK), Join3(TypeC, TypeK, TypeM)>>
    /\ replays[2].successRate = 40
    /\ TotalOf(patterns, Join3(TypeM, TypeC, TypeK)) = 90
    /\ TotalOf(patterns, Join3(TypeC, TypeK, TypeM)) = 0
    /\ ret.value.successfulReplays = 1
    /\ ret.value.patternsLearned = 1
    /\ ret.value.totalPatterns = 2

----------------------------------------------------------------------------
\* The derived success rate of a table entry, as the quotient num/den.
DerivedRate(v) ==
    IF v.count > 0 THEN [num |-> v.successTotal, den |-> v.count]
    ELSE [num |-> 0, den |-> 1]

SameRate(x, y) == x.num * y.den = y.num * x.den
HigherRate(x, y) == x.num * y.den > y.num * x.den

\* While the last call returned is a recommend, the table is the one it read:
\* every call that changes the table returns later than it.
C15_Ranking ==
    ret.op = "recommend" =>
        LET out == ret.value.items
            topK == ret.args.topK
            Src(i) == {n \in 1..Len(patterns) : patterns[n].k = out[i].pattern}
            Returned == {out[i].pattern : i \in 1..Len(out)}
        IN  /\ Len(out) = IF topK < Len(patterns) THEN topK ELSE Len(patterns)
            /\ Cardinality(Returned) = Len(out)
            /\ \A i \in 1..Len(out) :
                /\ Cardinality(Src(i)) = 1
                /\ \A n \in Src(i) :
                    /\ out[i].frequency = patterns[n].v.count
                    /\ out[i].successRate.den > 0
                    /\ SameRate(out[i].successRate, DerivedRate(patterns[n].v))
                    /\ patterns[n].v.count = 0 => out[i].successRate.num = 0
            /\ \A i, j \in 1..Len(out) :
                i < j => ~HigherRate(out[j].successRate, out[i].successRate)
            /\ \A n \in 1..Len(patterns) :
                patterns[n].k \notin Returned =>
                    \A i \in 1..Len(out) :
                        ~HigherRate(DerivedRate(patterns[n].v), out[i].successRate)

\* A step in which one getRecommendedPatterns call runs.
C15_Step ==
    (ret'.op = "recommend" /\ nOps' = nOps + 1
     /\ saving' = saving /\ loading' = loading)
        => patterns' = patterns /\ replays' = replays

\* C15: recommend(topK) returns min(topK, table size) entries, each a table
\* entry with successRate = successTotal/count when count > 0 and 0 when
\* count = 0, in non-increasing order of that rate; no entry left out has a
\* strictly higher rate than a returned one; the table is not modified.
C15_RecommendRanks == []C15_Ranking /\ [][C15_Step]_vars

\* A recommend that had to reorder and to cut, over a table with a count of 0.
C15_Witness ==
    /\ ret.op = "recommend"
    /\ Len(ret.value.items) >= 1
    /\ Len(ret.value.items) < Len(patterns)
    /\ ret.value.items[1].pattern # patterns[1].k
    /\ \E n \in 1..Len(patterns) : patterns[n].v.count = 0

----------------------------------------------------------------------------
\* A step in which a pending loadReplays call runs to its return.
LoadReturns == Len(loading') < Len(loading)

\* C16, as stated: whenever load fails it reports failure and the session
\* list and the pattern table are exactly what they were before the call;
\* neither is replaced while the other is kept.
C16_FailedLoadLeavesStore ==
    [][(LoadReturns /\ ~ret'.value.bool)
         => replays' = replays /\ patterns' = patterns]_vars

\* A step in which a pending saveReplays call runs to its return.
SaveReturns == Len(saving') < Len(saving)

\* C17, as stated: a save whose write fails is reported to the caller: what
\* the call returns differs from what a successful save returns.
C17_FailedSaveSignalled ==
    [][(SaveReturns /\ disk' = disk) => ret'.value # SaveReturn(TRUE)]_vars

\* C18: loading a file that saveReplays wrote reports success and leaves the
\* store with the ordered session list and the pattern table (signatures,
\* counts, successTotals) that the saving store had when save was called.
C18_RoundTrip ==
    [][(LoadReturns /\ Head(loading).filename.kind = "saved")
         => LET saved == disk[Head(loading).filename.n].from
            IN  /\ ret'.value.bool
                /\ replays' = saved.replays
                /\ patterns' = saved.patterns]_vars

\* A saved file with two sessions and a learned two-entry table, loaded back.
C18_Witness ==
    /\ ret.op = "load"
    /\ ret.args.filename.kind = "saved"
    /\ ret.value.bool
    /\ Len(replays) = 2
    /\ replays[1] # replays[2]
    /\ Len(patterns) >= 2
    /\ \E n \in 1..Len(patterns) : patterns[n].v.successTotal > 0
    /\ replays = disk[ret.args.filename.n].from.replays
    /\ patterns = disk[ret.args.filename.n].from.patterns

----------------------------------------------------------------------------
\* C19, as stated: every distribute call that returns adds one entry under a
\* fresh key and no entry is ever modified or removed, so the history size
\* equals the number of distribute calls that have returned.
C19_HistoryCountsReturns ==
    Len(tasks) = Cardinality({c \in 1..Len(calls) : calls[c].pc = "returned"})

----------------------------------------------------------------------------
\* The executions of agent a that were started and have not settled.
InFlight(a) ==
    {<<c, i>> \in (1..Len(calls)) \X (1..MaxSubtasks) :
        /\ i <= Len(calls[c].promises)
        /\ calls[c].promises[i].agentId = a
        /\ ~calls[c].promises[i].settled}

C20_AllReady == \A n \in 1..Len(agents) : agents[n].v.status = "ready"

\* A step in which a distributeTask call starts: it leaves the registry as it
\* is and dispatches to the first min(M, N) agents of the registry, N counting
\* every registered agent, those with executions in flight included.
C20_Step ==
    Len(calls') = Len(calls) + 1 =>
        LET new == calls'[Len(calls')]
            M == Len(new.subtasks)
            cnt == IF M < Len(agents) THEN M ELSE Len(agents)
        IN  /\ agents' = agents
            /\ {new.promises[i].agentId : i \in 1..Len(new.promises)}
                 = {agents[n].k : n \in 1..cnt}

\* C20: dispatch reserves no agent: every agent stays ready while it has
\* executions in flight, and a call that starts meanwhile dispatches to it as
\* to any other agent.
C20_NotReserved == []C20_AllReady /\ [][C20_Step]_vars

\* One agent with two executions in flight at once, from two calls.
C20_Witness ==
    \E a \in AgentIds : \E x, y \in InFlight(a) : x[1] # y[1]

----------------------------------------------------------------------------
C21_Records ==
    \A n \in 1..Len(agents) :
        /\ agents[n].v.status = "ready"
        /\ agents[n].v.tasksCompleted = 0
        /\ agents[n].v.successRate = 100

\* Only a registerAgent step changes the registry; a distributeTask call that
\* starts allocates to the agents in the order of the registry (the order in
\* which their ids were first registered), all of them counted.
C21_Step ==
    /\ agents' # agents => calls' = calls /\ syncs' = syncs
    /\ Len(calls') = Len(calls) + 1 =>
        LET new == calls'[Len(calls')]
            M == Len(new.subtasks)
        IN  /\ Len(new.assignments) = IF M < Len(agents) THEN M ELSE Len(agents)
            /\ \A i \in 1..Len(new.assignments) : new.assignments[i].k = agents[i].k

\* C21: under any interleaving of register, distribute and synchronize calls,
\* every registered agent's record has status ready, tasksCompleted 0 and
\* successRate 1.0; distribute and synchronize leave the registry unchanged,
\* and allocation ranks all registered agents in registration order.
C21_RecordsFrozen == []C21_Records /\ [][C21_Step]_vars

\* Two agents, a distribute call that returned with a failed execution and a
\* synchronize call that ran sync() and finished.
C21_Witness ==
    /\ Len(agents) = 2
    /\ \E c \in 1..Len(calls) :
        calls[c].pc = "returned" /\ calls[c].summary.failed >= 1
    /\ \E s \in 1..Len(syncs) :
        syncs[s].pc = "done" /\ syncs[s].started # {}

----------------------------------------------------------------------------
\* C22, as stated: within one distribute call no agent is dispatched more
\* than once, the number of executions started is min(M, N) for M subtasks
\* and N ready agents, and the agent at rank r (from 0) executes only the
\* subtask with the largest index i (from 0) such that i mod N = r.
C22_OncePerAgent ==
    [][Len(calls') = Len(calls) + 1 =>
        LET new == calls'[Len(calls')]
            M == Len(new.subtasks)
            N == Cardinality({n \in 1..Len(agents) : agents[n].v.status = "ready"})
            called == Len(new.promises) + (IF new.threwAt > 0 THEN 1 ELSE 0)
        IN  /\ called = IF M < N THEN M ELSE N
            /\ \A i, j \in 1..Len(new.promises) :
                new.promises[i].agentId = new.promises[j].agentId => i = j
            /\ \A i \in 1..Len(new.promises) :
                /\ new.promises[i].agentId = agents[i].k
                /\ LET last == CHOOSE x \in 1..M :
                                /\ (x - 1) % N = i - 1
                                /\ \A y \in 1..M : (y - 1) % N = i - 1 => y <= x
                   IN  new.promises[i].subtask = new.subtasks[last]]_vars

----------------------------------------------------------------------------
\* C23: after k consecutive learn calls with one threshold and no record or
\* load between them, every successTotal is its value before the first of
\* them plus k times the contribution of one call; the counts, the signatures
\* and the session list are as before.
C23_Cumulative ==
    streak.n > 0 =>
        /\ replays = streak.replays
        /\ Len(patterns) = Len(streak.patterns)
        /\ \A i \in 1..Len(patterns) :
            /\ patterns[i].k = streak.patterns[i].k
            /\ patterns[i].v.count = streak.patterns[i].v.count
            /\ patterns[i].v.successTotal
                 = streak.patterns[i].v.successTotal
                   + streak.n * RateSum(patterns[i].k, replays, streak.threshold)

\* Three calls in a row, with an entry they raise and an entry they leave.
C23_Witness ==
    /\ streak.n = 3
    /\ \E i \in 1..Len(patterns) :
        /\ RateSum(patterns[i].k, replays, streak.threshold) > 0
        /\ patterns[i].v.successTotal
             = streak.patterns[i].v.successTotal
               + 3 * RateSum(patterns[i].k, replays, streak.threshold)
    /\ \E i \in 1..Len(patterns) :
        RateSum(patterns[i].k, replays, streak.threshold) = 0

----------------------------------------------------------------------------
\* The pattern-list lengths of the sessions at or above thr, summed.
RECURSIVE QualLen(_, _)
QualLen(sessions, thr) ==
    IF sessions = <<>> THEN 0
    ELSE (IF Head(sessions).successRate >= thr THEN Len(Head(sessions).patterns) ELSE 0)
         + QualLen(Tail(sessions), thr)

C24_Covered ==
    \A i \in 1..Len(replays) :
        \A j \in 1..Len(replays[i].patterns) :
            \E n \in 1..Len(patterns) :
                /\ patterns[n].k = replays[i].patterns[j]
                /\ patterns[n].v.count >= OccIn(patterns[n].k, replays)

C24_Step ==
    LearnStep => ret'.value.patternsLearned = QualLen(replays, ret'.args.threshold)

\* C24: under record and learn calls, evictions included, every signature in
\* the pattern list of a stored session has a table entry whose count is at
\* least the number of its occurrences in the stored sessions; patternsLearned
\* is the sum of the pattern-list lengths of the qualifying sessions.
C24_TableCoversSessions == []C24_Covered /\ [][C24_Step]_vars

\* After an eviction (a count above the stored occurrences), a learn that
\* folded in two occurrences or more.
C24_Witness ==
    /\ Len(recorded) > Len(replays)
    /\ \E n \in 1..Len(patterns) :
        patterns[n].v.count > OccIn(patterns[n].k, replays)
    /\ ret.op = "learn"
    /\ ret.value.patternsLearned >= 2

----------------------------------------------------------------------------
\* C25: a load that succeeds replaces the session list and the pattern table
\* in the one step in which its read completes, by the contents of the
\* snapshot (empty for a part the snapshot lacks); whatever was recorded or
\* learned since the call is gone.
C25_LoadReplaces ==
    [][(LoadReturns /\ ret'.value.bool)
         => LET file == FileAt(Head(loading).filename)
            IN  /\ replays' = IF file.hasReplays THEN file.replays ELSE <<>>
                /\ patterns' = IF file.patternsKind = "entries"
                               THEN [i \in 1..Len(file.patterns) |->
                                        [k |-> file.patterns[i][1],
                                         v |-> file.patterns[i][2]]]
                               ELSE <<>>]_vars

\* A load that succeeded after a session was recorded while it was pending:
\* the session is not stored and a signature of it is not in the table.
C25_Witness ==
    /\ ret.op = "load"
    /\ ret.value.bool
    /\ Len(recorded) > ret.recordedAtCall
    /\ LET lost == recorded[Len(recorded)]
       IN  /\ \A i \in 1..Len(replays) : replays[i] # lost
           /\ \E j \in 1..Len(lost.patterns) :
                \A n \in 1..Len(patterns) : patterns[n].k # lost.patterns[j]


====
